---- MODULE Spec2Model ----
(***************************************************************************)
(* A model of bedrock-demo.py: main -> list_foundation_models ->           *)
(* get_bedrock_client -> verify_private_connection.                        *)
(*                                                                         *)
(* The program is one sequential run.  Its state is the position of the    *)
(* run (pc), the locals that outlive a step, the exception in flight and   *)
(* the log.  The external collaborators (DNS, boto3, the paginator) are    *)
(* the environment: each call to one of them picks its outcome from a      *)
(* bounded set, and the call and its outcome are recorded in `calls`.      *)
(*                                                                         *)
(* Python strings that the code inspects (the resolved address) are        *)
(* sequences of one-character strings; a log text is the sequence of the   *)
(* fragments the f-string concatenates.                                    *)
(***************************************************************************)
EXTENDS Integers, Sequences, FiniteSets, TLC

VARIABLES pc, is_private, client, enabled_models, models, exc, log, result, calls

vars == <<pc, is_private, client, enabled_models, models, exc, log, result, calls>>

(***************************************************************************)
(* Bounds of the model.                                                    *)
(***************************************************************************)
\* pages the paginator yields in one run, at most
MaxPages == 2
\* model entries over all pages of one run, at most
MaxModels == 3

(***************************************************************************)
(* Python string primitives, on sequences of characters.                   *)
(***************************************************************************)
DigitChars == <<"0", "1", "2", "3", "4", "5", "6", "7", "8", "9">>

IsDigit(c) == \E i \in 1..10 : DigitChars[i] = c

DigitVal(c) == (CHOOSE i \in 1..10 : DigitChars[i] = c) - 1

\* str(n) for n >= 0
RECURSIVE ToStr(_)
ToStr(n) == IF n < 10 THEN <<DigitChars[n + 1]>>
            ELSE ToStr(n \div 10) \o <<DigitChars[(n % 10) + 1]>>

\* s.startswith(p)
StartsWith(s, p) == Len(s) >= Len(p) /\ SubSeq(s, 1, Len(p)) = p

\* s.split(c)
RECURSIVE Split(_, _)
Split(s, c) ==
    IF \A i \in 1..Len(s) : s[i] # c THEN <<s>>
    ELSE LET i == CHOOSE j \in 1..Len(s) : s[j] = c /\ \A k \in 1..(j - 1) : s[k] # c
         IN  <<SubSeq(s, 1, i - 1)>> \o Split(SubSeq(s, i + 1, Len(s)), c)

RECURSIVE DigitsVal(_)
DigitsVal(s) == IF Len(s) = 0 THEN 0
                ELSE 10 * DigitsVal(SubSeq(s, 1, Len(s) - 1)) + DigitVal(s[Len(s)])

AllDigits(s) == Len(s) > 0 /\ \A i \in 1..Len(s) : IsDigit(s[i])

\* int(s): a decimal literal with an optional sign; anything else is a ValueError
IntOf(s) ==
    LET signed == Len(s) > 0 /\ s[1] \in {"+", "-"}
        body   == IF signed THEN SubSeq(s, 2, Len(s)) ELSE s
    IN  IF AllDigits(body)
        THEN [raised |-> FALSE,
              value  |-> IF signed /\ s[1] = "-" THEN 0 - DigitsVal(body) ELSE DigitsVal(body)]
        ELSE [raised |-> TRUE, value |-> 0]

\* sep.join(parts), as the sequence of fragments
RECURSIVE Join(_, _)
Join(sep, parts) ==
    IF Len(parts) = 0 THEN <<>>
    ELSE IF Len(parts) = 1 THEN <<parts[1]>>
    ELSE <<parts[1], sep>> \o Join(sep, Tail(parts))

\* c * n
Repeat(c, n) == [i \in 1..n |-> c]

(***************************************************************************)
(* Exceptions and log entries.                                             *)
(***************************************************************************)
\* an exception object: `id` is its identity, `text` is str(e), `response`
\* is ClientError's e.response['Error']
Exception(id, type, text) == [id |-> id, type |-> type, text |-> text]

ClientError(id, code, message) ==
    [id |-> id, type |-> "ClientError",
     text |-> <<"An error occurred (", code, "): ", message>>,
     response |-> [Code |-> code, Message |-> message]]

\* isinstance(e, ClientError)
IsClientError(e) == e.type = "ClientError"

\* one call of logger.<level>(text) made inside function fn
Entry(level, fn, text) == [level |-> level, fn |-> fn, text |-> text]

\* the id of the next exception object created in this run
NextId == Cardinality({i \in 1..Len(calls) : calls[i].raised}) + 1

(***************************************************************************)
(* verify_private_connection                                               *)
(***************************************************************************)
bedrock_endpoint == "bedrock.us-east-1.amazonaws.com"

\* variant: the third test reads "192.168." (the RFC 1918 block)
IsPrivateIp_Rfc1918(endpoint_ip) ==
    LET is172 == StartsWith(endpoint_ip, <<"1", "7", "2", ".">>)
        octet == IntOf(Split(endpoint_ip, ".")[2])
    IN  IF is172 /\ octet.raised
        THEN [raised |-> TRUE, value |-> FALSE,
              text |-> <<"invalid literal for int() with base 10: ">> \o Split(endpoint_ip, ".")[2]]
        ELSE [raised |-> FALSE, text |-> <<>>,
              value  |-> \/ StartsWith(endpoint_ip, <<"1", "0", ".">>)
                         \/ (is172 /\ 16 <= octet.value /\ octet.value <= 31)
                         \/ StartsWith(endpoint_ip, <<"1", "9", "2", ".", "1", "6", "8", ".">>)]

\* the any([...]) of the three prefix tests; raised when int() raises
IsPrivateIp(endpoint_ip) ==
    LET ten    == StartsWith(endpoint_ip, <<"1", "0", ".">>)
        is172  == StartsWith(endpoint_ip, <<"1", "7", "2", ".">>)
        octet  == IntOf(Split(endpoint_ip, ".")[2])
        narrow == StartsWith(endpoint_ip, <<"1", "9", "2", ".", "0", ".">>)
    IN  IF is172 /\ octet.raised
        THEN [raised |-> TRUE, value |-> FALSE,
              text |-> <<"invalid literal for int() with base 10: ">> \o Split(endpoint_ip, ".")[2]]
        ELSE [raised |-> FALSE, text |-> <<>>,
              value  |-> ten \/ (is172 /\ 16 <= octet.value /\ octet.value <= 31) \/ narrow]

\* variant: the try block covers the resolution only, so an error of the
\* classification leaves the function
VerifyPrivateConnection_NarrowTry(dns) ==
    LET fn == "verify_private_connection"
    IN  IF dns.raised
        THEN [ret |-> <<FALSE>>, raised |-> FALSE,
              log |-> <<Entry("ERROR", fn, <<"Error verifying private connection: ">> \o dns.text)>>]
        ELSE IF IsPrivateIp(dns.ip).raised
        THEN [ret |-> <<>>, raised |-> TRUE, log |-> <<>>]
        ELSE [ret |-> <<IsPrivateIp(dns.ip).value>>, raised |-> FALSE, log |-> <<>>]

\* The whole function for one outcome `dns` of socket.gethostbyname:
\* what it returns and what it logs.  The except clause absorbs both a
\* resolution error and an error of the classification.
VerifyPrivateConnection(dns) ==
    LET fn  == "verify_private_connection"
        cls == IsPrivateIp(dns.ip)
    IN  IF dns.raised
        THEN [ret |-> <<FALSE>>, raised |-> FALSE,
              log |-> <<Entry("ERROR", fn, <<"Error verifying private connection: ">> \o dns.text)>>]
        ELSE IF cls.raised
        THEN [ret |-> <<FALSE>>, raised |-> FALSE,
              log |-> <<Entry("ERROR", fn, <<"Error verifying private connection: ">> \o cls.text)>>]
        ELSE IF cls.value
        THEN [ret |-> <<TRUE>>, raised |-> FALSE,
              log |-> <<Entry("INFO", fn, <<"Verified private connection. Endpoint ", bedrock_endpoint,
                                            " resolved to private IP: ">> \o dns.ip)>>]
        ELSE [ret |-> <<FALSE>>, raised |-> FALSE,
              log |-> <<Entry("WARNING", fn, <<"Public IP detected: ">> \o dns.ip
                                 \o <<". Traffic might not be using VPC endpoints!">>)>>]

(***************************************************************************)
(* get_bedrock_client                                                      *)
(***************************************************************************)
region_name == "us-east-1"

max_attempts == 3

connect_timeout == 5

read_timeout == 10

\* Config(region_name=..., retries=..., connect_timeout=..., read_timeout=..., endpoint_url=...)
Config(region) ==
    [region_name     |-> region,
     retries         |-> [max_attempts |-> max_attempts, mode |-> "standard"],
     connect_timeout |-> connect_timeout,
     read_timeout    |-> read_timeout,
     endpoint_url    |-> <<"https://bedrock.", region, ".amazonaws.com">>]

\* variant: no warning on a public path
PublicWarning_Silent(private) == <<>>

\* if not is_private: logger.warning(...)
PublicWarning(private) ==
    IF private THEN <<>>
    ELSE <<Entry("WARNING", "get_bedrock_client", <<"Traffic might be flowing over public internet!">>)>>

(***************************************************************************)
(* list_foundation_models                                                  *)
(***************************************************************************)
None == "None"

EmptyDict == [k \in {} |-> None]

\* d.get(key, default)
Get(d, key, default) == IF key \in DOMAIN d THEN d[key] ELSE default

\* variant: the status is compared without regard to case
IsActive_IgnoreCase(model) ==
    Get(Get(model, "modelLifecycle", EmptyDict), "status", None) \in {"ACTIVE", "active", "Active"}

\* variant: a missing status defaults to 'ACTIVE'
IsActive_DefaultActive(model) ==
    Get(Get(model, "modelLifecycle", EmptyDict), "status", "ACTIVE") = "ACTIVE"

\* model.get('modelLifecycle', {}).get('status') == 'ACTIVE'
IsActive(model) == Get(Get(model, "modelLifecycle", EmptyDict), "status", None) = "ACTIVE"

\* the dict appended for one active model
EnabledModel(model) ==
    [modelId          |-> model.modelId,
     provider         |-> model.providerName,
     inputModalities  |-> Get(model, "inputModalities", <<>>),
     outputModalities |-> Get(model, "outputModalities", <<>>)]

\* for model in page['modelSummaries']: if ...: enabled.append(...)
RECURSIVE AppendActive(_, _)
AppendActive(enabled, summaries) ==
    IF Len(summaries) = 0 THEN enabled
    ELSE AppendActive(IF IsActive(Head(summaries))
                      THEN Append(enabled, EnabledModel(Head(summaries)))
                      ELSE enabled,
                      Tail(summaries))

\* variant: the entry carries the code only
AwsErrorEntry_CodeOnly(e) ==
    Entry("ERROR", "list_foundation_models", <<"AWS Error: ", e.response.Code>>)

\* logger.error(f"AWS Error: {error_code} - {error_message}")
AwsErrorEntry(e) ==
    Entry("ERROR", "list_foundation_models",
          <<"AWS Error: ", e.response.Code, " - ", e.response.Message>>)

\* logger.error(f"Unexpected error: {str(e)}")
UnexpectedErrorEntry(e) ==
    Entry("ERROR", "list_foundation_models", <<"Unexpected error: ">> \o e.text)

(***************************************************************************)
(* main                                                                    *)
(***************************************************************************)
SeparatorWidth == 50

\* variant: the output modalities are printed before the input modalities
ModelBlock_Swapped(model) ==
    <<Entry("INFO", "main", <<"Model ID: ", model.modelId>>),
      Entry("INFO", "main", <<"Provider: ", model.provider>>),
      Entry("INFO", "main", <<"Output Modalities: ">> \o Join(", ", model.outputModalities)),
      Entry("INFO", "main", <<"Input Modalities: ">> \o Join(", ", model.inputModalities)),
      Entry("INFO", "main", Repeat("-", SeparatorWidth))>>

\* the five logger.info calls of one iteration of `for model in models`
ModelBlock(model) ==
    <<Entry("INFO", "main", <<"Model ID: ", model.modelId>>),
      Entry("INFO", "main", <<"Provider: ", model.provider>>),
      Entry("INFO", "main", <<"Input Modalities: ">> \o Join(", ", model.inputModalities)),
      Entry("INFO", "main", <<"Output Modalities: ">> \o Join(", ", model.outputModalities)),
      Entry("INFO", "main", Repeat("-", SeparatorWidth))>>

RECURSIVE ModelBlocks(_)
ModelBlocks(ms) == IF Len(ms) = 0 THEN <<>> ELSE ModelBlock(Head(ms)) \o ModelBlocks(Tail(ms))

\* logger.info(f"Found {len(models)} enabled models:")
CountEntry(ms) == Entry("INFO", "main", <<"Found ">> \o ToStr(Len(ms)) \o <<" enabled models:">>)

StartEntry == Entry("INFO", "main", <<"Starting to fetch enabled Bedrock models...">>)

\* logger.error(f"Failed to list models: {str(e)}")
FailedEntry(e) == Entry("ERROR", "main", <<"Failed to list models: ">> \o e.text)

(***************************************************************************)
(* The environment: what the external calls can answer.                    *)
(***************************************************************************)
\* socket.gethostbyname answered with an address / raised
DnsOk(ip) == [raised |-> FALSE, ip |-> ip, type |-> "", text |-> <<>>]

DnsErr(type, text) == [raised |-> TRUE, ip |-> <<>>, type |-> type, text |-> text]

DottedQuad(a, b, c, d) ==
    ToStr(a) \o <<".">> \o ToStr(b) \o <<".">> \o ToStr(c) \o <<".">> \o ToStr(d)

\* an error an external call raises, before it is given an identity
ErrorKind(type, code, message) == [type |-> type, code |-> code, message |-> message]

Raise(kind, id) ==
    IF kind.type = "ClientError" THEN ClientError(id, kind.code, kind.message)
    ELSE Exception(id, kind.type, <<kind.message>>)

\* every page of at most n entries drawn from Entries
PagesUpTo(Entries, n) == UNION {[1..k -> Entries] : k \in 0..n}

\* the pages the paginator has yielded so far, in order
RECURSIVE PagesOf(_)
PagesOf(cs) ==
    IF Len(cs) = 0 THEN <<>>
    ELSE IF Head(cs).op = "paginate" /\ Head(cs).kind = "page"
         THEN <<Head(cs).page>> \o PagesOf(Tail(cs))
         ELSE PagesOf(Tail(cs))

RECURSIVE Flatten(_)
Flatten(ps) == IF Len(ps) = 0 THEN <<>> ELSE Head(ps) \o Flatten(Tail(ps))

Call(op, kind, raised, dns, config, page, error) ==
    [op |-> op, kind |-> kind, raised |-> raised, dns |-> dns, config |-> config,
     page |-> page, error |-> error]

NoDns == DnsOk(<<>>)

NoConfig == <<>>

(***************************************************************************)
(* The run.                                                                *)
(***************************************************************************)
Init ==
    /\ pc = "main"
    /\ is_private = <<>>
    /\ client = <<>>
    /\ enabled_models = <<>>
    /\ models = <<>>
    /\ exc = <<>>
    /\ log = <<>>
    /\ result = <<>>
    /\ calls = <<>>

\* main, up to the call of list_foundation_models, which calls
\* get_bedrock_client, which calls verify_private_connection
MainStart ==
    /\ pc = "main"
    /\ log' = Append(log, StartEntry)
    /\ pc' = "verify_private_connection"
    /\ UNCHANGED <<is_private, client, enabled_models, models, exc, result, calls>>

\* verify_private_connection, whole; Dns is what gethostbyname may answer
Verify(Dns) ==
    /\ pc = "verify_private_connection"
    /\ \E dns \in Dns :
         LET v == VerifyPrivateConnection(dns)
         IN  /\ calls' = Append(calls, Call("gethostbyname", "dns", dns.raised, dns, NoConfig, <<>>, <<>>))
             /\ log' = log \o v.log
             /\ IF v.raised
                THEN /\ exc' = <<Exception(NextId, "ValueError", <<>>)>>
                     /\ pc' = "get_bedrock_client_except"
                     /\ UNCHANGED is_private
                ELSE /\ is_private' = v.ret
                     /\ pc' = "get_bedrock_client"
                     /\ UNCHANGED exc
    /\ UNCHANGED <<client, enabled_models, models, result>>

\* variant: a negative check is treated as fatal, no client is constructed
CreateClient_RequiresPrivate ==
    /\ pc = "get_bedrock_client"
    /\ log' = log \o PublicWarning(is_private[1])
    /\ IF is_private[1]
       THEN /\ calls' = Append(calls, Call("boto3.client", "client", FALSE, NoDns, <<Config(region_name)>>, <<>>, <<>>))
            /\ client' = <<[service_name |-> "bedrock", config |-> Config(region_name)]>>
            /\ pc' = "paginate"
            /\ UNCHANGED exc
       ELSE /\ exc' = <<Exception(NextId, "ConnectionError", <<"not a private connection">>)>>
            /\ pc' = "get_bedrock_client_except"
            /\ UNCHANGED <<calls, client>>
    /\ enabled_models' = <<>>
    /\ UNCHANGED <<is_private, models, result>>

\* get_bedrock_client after the check: the warning, the Config, boto3.client
CreateClient ==
    /\ pc = "get_bedrock_client"
    /\ log' = log \o PublicWarning(is_private[1])
    /\ calls' = Append(calls, Call("boto3.client", "client", FALSE, NoDns, <<Config(region_name)>>, <<>>, <<>>))
    /\ client' = <<[service_name |-> "bedrock", config |-> Config(region_name)]>>
    /\ enabled_models' = <<>>
    /\ pc' = "paginate"
    /\ UNCHANGED <<is_private, models, exc, result>>

\* the same, with construction raising one of Errors
CreateClientFails(Errors) ==
    /\ pc = "get_bedrock_client"
    /\ \E kind \in Errors :
         LET e == Raise(kind, NextId)
         IN  /\ calls' = Append(calls, Call("boto3.client", "client", TRUE, NoDns, <<Config(region_name)>>, <<>>, <<e>>))
             /\ exc' = <<e>>
    /\ log' = log \o PublicWarning(is_private[1])
    /\ pc' = "get_bedrock_client_except"
    /\ UNCHANGED <<is_private, client, enabled_models, models, result>>

\* variant: the handler re-raises without logging
GetBedrockClientExcept_Silent ==
    /\ pc = "get_bedrock_client_except"
    /\ pc' = "list_foundation_models_except"
    /\ UNCHANGED <<is_private, client, enabled_models, models, exc, log, result, calls>>

\* get_bedrock_client: except Exception: log, raise
GetBedrockClientExcept ==
    /\ pc = "get_bedrock_client_except"
    /\ log' = Append(log, Entry("ERROR", "get_bedrock_client",
                                <<"Error creating Bedrock client: ">> \o exc[1].text))
    /\ pc' = "list_foundation_models_except"
    /\ UNCHANGED <<is_private, client, enabled_models, models, exc, result, calls>>

\* one iteration of `for page in paginator.paginate()`, inner loop included
FetchPage(Entries) ==
    /\ pc = "paginate"
    /\ Len(PagesOf(calls)) < MaxPages
    /\ \E page \in PagesUpTo(Entries, MaxModels - Len(Flatten(PagesOf(calls)))) :
         /\ calls' = Append(calls, Call("paginate", "page", FALSE, NoDns, NoConfig, page, <<>>))
         /\ enabled_models' = AppendActive(enabled_models, page)
    /\ UNCHANGED <<pc, is_private, client, models, exc, log, result>>

\* the paginator is exhausted: return enabled_models
PaginateEnd ==
    /\ pc = "paginate"
    /\ calls' = Append(calls, Call("paginate", "end", FALSE, NoDns, NoConfig, <<>>, <<>>))
    /\ models' = <<enabled_models>>
    /\ pc' = "main_report"
    /\ UNCHANGED <<is_private, client, enabled_models, exc, log, result>>

\* fetching the next page raises one of Errors
FetchFails(Errors) ==
    /\ pc = "paginate"
    /\ \E kind \in Errors :
         LET e == Raise(kind, NextId)
         IN  /\ calls' = Append(calls, Call("paginate", "error", TRUE, NoDns, NoConfig, <<>>, <<e>>))
             /\ exc' = <<e>>
    /\ pc' = "list_foundation_models_except"
    /\ UNCHANGED <<is_private, client, enabled_models, models, log, result>>

\* list_foundation_models: except ClientError: log code and message, raise
ListExceptClientError ==
    /\ pc = "list_foundation_models_except"
    /\ IsClientError(exc[1])
    /\ log' = Append(log, AwsErrorEntry(exc[1]))
    /\ pc' = "main_except"
    /\ UNCHANGED <<is_private, client, enabled_models, models, exc, result, calls>>

\* variant: the handler logs and returns what was collected so far
ListExceptException_ReturnsPartial ==
    /\ pc = "list_foundation_models_except"
    /\ ~IsClientError(exc[1])
    /\ log' = Append(log, UnexpectedErrorEntry(exc[1]))
    /\ models' = <<enabled_models>>
    /\ exc' = <<>>
    /\ pc' = "main_report"
    /\ UNCHANGED <<is_private, client, enabled_models, result, calls>>

\* list_foundation_models: except Exception: log, raise
ListExceptException ==
    /\ pc = "list_foundation_models_except"
    /\ ~IsClientError(exc[1])
    /\ log' = Append(log, UnexpectedErrorEntry(exc[1]))
    /\ pc' = "main_except"
    /\ UNCHANGED <<is_private, client, enabled_models, models, exc, result, calls>>

\* main after list_foundation_models returned: the count, the blocks, return
MainReport ==
    /\ pc = "main_report"
    /\ log' = (Append(log, CountEntry(models[1]))) \o ModelBlocks(models[1])
    /\ result' = models
    /\ pc' = "done"
    /\ UNCHANGED <<is_private, client, enabled_models, models, exc, calls>>

\* variant: the handler raises a new error that wraps the one caught
MainExcept_Wraps ==
    /\ pc = "main_except"
    /\ log' = Append(log, FailedEntry(exc[1]))
    /\ exc' = <<Exception(NextId, "RuntimeError", <<"Failed to list models: ">> \o exc[1].text)>>
    /\ pc' = "done"
    /\ UNCHANGED <<is_private, client, enabled_models, models, result, calls>>

\* main: except Exception: log, raise
MainExcept ==
    /\ pc = "main_except"
    /\ log' = Append(log, FailedEntry(exc[1]))
    /\ pc' = "done"
    /\ UNCHANGED <<is_private, client, enabled_models, models, exc, result, calls>>

Program(Dns, ConstructErrors, Entries, FetchErrors) ==
    \/ MainStart
    \/ Verify(Dns)
    \/ CreateClient
    \/ CreateClientFails(ConstructErrors)
    \/ GetBedrockClientExcept
    \/ FetchPage(Entries)
    \/ PaginateEnd
    \/ FetchFails(FetchErrors)
    \/ ListExceptClientError
    \/ ListExceptException
    \/ MainReport
    \/ MainExcept

(***************************************************************************)
(* Inputs.                                                                 *)
(***************************************************************************)
NameNotKnown == DnsErr("gaierror", <<"[Errno -2] Name or service not known">>)

Throttling == ErrorKind("ClientError", "ThrottlingException", "Rate exceeded")

AccessDenied == ErrorKind("ClientError", "AccessDeniedException", "not authorized")

ConnectError == ErrorKind("EndpointConnectionError", "", "Could not connect to the endpoint URL")

ConfigError == ErrorKind("TypeError", "", "Got unexpected keyword argument")

\* model summaries: the optional fields present or omitted
Active1 == [modelId |-> "m1", providerName |-> "p1", modelLifecycle |-> [status |-> "ACTIVE"]]

Active2 == [modelId |-> "m2", providerName |-> "p2", modelLifecycle |-> [status |-> "ACTIVE"],
            inputModalities |-> <<"TEXT", "IMAGE">>, outputModalities |-> <<"TEXT">>]

Legacy == [modelId |-> "m3", providerName |-> "p1", modelLifecycle |-> [status |-> "LEGACY"],
           inputModalities |-> <<"TEXT">>, outputModalities |-> <<"TEXT">>]

LowerCase == [modelId |-> "m4", providerName |-> "p2", modelLifecycle |-> [status |-> "active"],
              inputModalities |-> <<"TEXT">>]

NoStatus == [modelId |-> "m5", providerName |-> "p1", modelLifecycle |-> [note |-> "n/a"],
             outputModalities |-> <<"EMBEDDING">>]

NoLifecycle == [modelId |-> "m6", providerName |-> "p2", inputModalities |-> <<"TEXT">>]

AllEntries == {Active1, Active2, Legacy, LowerCase, NoStatus, NoLifecycle}

\* addresses around every edge of the three prefix tests
FirstOctets == {1, 10, 100, 17, 172, 192}

SecondOctets == {0, 10, 15, 16, 20, 31, 32, 168, 255}

ThirdOctets == {0, 168}

Addresses == {DottedQuad(a, b, c, 1) : a \in FirstOctets, b \in SecondOctets, c \in ThirdOctets}

\* strings no resolver returns, which the classification cannot parse
OddStrings == {<<"1", "7", "2", ".", "x", ".", "0", ".", "1">>, <<"1", "7", "2", ".">>}

DnsAll == {DnsOk(ip) : ip \in Addresses \cup OddStrings} \cup {NameNotKnown}

DnsFew == {DnsOk(DottedQuad(10, 0, 0, 1)), DnsOk(DottedQuad(52, 94, 0, 1)), NameNotKnown}

\* the whole program, on few addresses and two kinds of entry
Next == Program(DnsFew, {ConfigError, AccessDenied}, {Active1, Active2, Legacy}, {Throttling, ConnectError})

Spec == Init /\ [][Next]_vars

\* the connectivity check on every address
NextClassify == Program(DnsAll, {ConfigError}, {Active1}, {Throttling, ConnectError})

SpecClassify == Init /\ [][NextClassify]_vars

\* the inventory on every kind of entry
NextInventory == Program({DnsOk(DottedQuad(10, 0, 0, 1))}, {ConfigError}, AllEntries, {Throttling, ConnectError})

SpecInventory == Init /\ [][NextInventory]_vars

(***************************************************************************)
(* Properties.                                                             *)
(***************************************************************************)
\* the calls of one kind made so far, in order
CallsOf(op) == SelectSeq(calls, LAMBDA c : c.op = op)

Range(f) == {f[i] : i \in DOMAIN f}

\* C1: verify_private_connection never raises to its caller: once it has run
\* its caller holds a boolean, and that boolean is false whenever resolution
\* failed or the resolved string could not be classified.
C1_VerifyNeverRaises ==
    Len(CallsOf("gethostbyname")) > 0 =>
        LET dns == CallsOf("gethostbyname")[1].dns
        IN  /\ Len(is_private) = 1
            /\ is_private[1] \in BOOLEAN
            /\ pc # "get_bedrock_client_except" \/ Len(CallsOf("boto3.client")) > 0
            /\ (dns.raised \/ dns.ip \in OddStrings) => is_private[1] = FALSE

\* C1 witness: the resolver answered "172.x.0.1" and the caller holds False.
C1_Witness ==
    /\ Len(calls) > 0
    /\ calls[1].dns.ip = <<"1", "7", "2", ".", "x", ".", "0", ".", "1">>
    /\ is_private = <<FALSE>>
    /\ pc = "get_bedrock_client"

\* C2: for a dotted quad a.b.c.d the check returns true exactly when a = 10,
\* or a = 172 and 16 <= b <= 31, or a = 192 and b = 0; so 192.168.* is public.
C2_Classification ==
    Len(CallsOf("gethostbyname")) > 0 =>
        LET dns == CallsOf("gethostbyname")[1].dns
        IN  \A a \in FirstOctets, b \in SecondOctets, c \in ThirdOctets :
              (~dns.raised /\ dns.ip = DottedQuad(a, b, c, 1)) =>
                  is_private = << \/ a = 10
                                  \/ (a = 172 /\ 16 <= b /\ b <= 31)
                                  \/ (a = 192 /\ b = 0) >>

\* C2 witness: 192.168.0.1 was resolved and classified as not private.
C2_Witness ==
    /\ Len(calls) > 0
    /\ calls[1].dns.ip = DottedQuad(192, 168, 0, 1)
    /\ is_private = <<FALSE>>

\* the entries of the pages fetched so far, in page then within-page order
Fetched == Flatten(PagesOf(calls))

\* a summary whose lifecycle status is present and is exactly "ACTIVE"
StatusIsActive(m) ==
    /\ "modelLifecycle" \in DOMAIN m
    /\ "status" \in DOMAIN m.modelLifecycle
    /\ m.modelLifecycle.status = "ACTIVE"

\* a summary with no modelLifecycle, or with a modelLifecycle without status
LacksStatus(m) ==
    \/ "modelLifecycle" \notin DOMAIN m
    \/ "status" \notin DOMAIN m.modelLifecycle

\* the normalized record of a summary
Normalized(m) ==
    [modelId          |-> m.modelId,
     provider         |-> m.providerName,
     inputModalities  |-> IF "inputModalities" \in DOMAIN m THEN m.inputModalities ELSE <<>>,
     outputModalities |-> IF "outputModalities" \in DOMAIN m THEN m.outputModalities ELSE <<>>]

\* the list the inventory owes for the entries `all`
Inventory(all) ==
    LET kept == SelectSeq(all, StatusIsActive)
    IN  [i \in 1..Len(kept) |-> Normalized(kept[i])]

\* C3: when every page fetch succeeded, list_foundation_models returns the
\* ACTIVE entries of all pages, in page then within-page order, each
\* normalized, none dropped, duplicated or reordered.
C3_InventoryExact ==
    Len(models) > 0 =>
        /\ Len(models[1]) = Len(Inventory(Fetched))
        /\ \A i \in 1..Len(models[1]) : models[1][i] = Inventory(Fetched)[i]

\* C3 witness: page 1 held one active model, page 2 one active and one
\* inactive, and the list returned has the two active ones in that order.
C3_Witness ==
    /\ pc = "done"
    /\ PagesOf(calls) = << <<Active1>>, <<Active2, LowerCase>> >>
    /\ Len(result) = 1
    /\ Len(result[1]) = 2
    /\ result[1][1].modelId = "m1"
    /\ result[1][1].inputModalities = <<>>
    /\ result[1][2].modelId = "m2"

\* C4: an entry without modelLifecycle, or whose modelLifecycle has no
\* status, is never in the list and never fails the call: after every fetch
\* the loop goes on with no exception, holding exactly the ACTIVE entries
\* fetched so far, those after such an entry included.
C4_MissingLifecycleExcluded ==
    (\E i \in 1..Len(Fetched) : LacksStatus(Fetched[i])) =>
        /\ calls[Len(calls)].kind \in {"page", "end"} => exc = <<>>
        /\ [i \in 1..Len(enabled_models) |-> enabled_models[i].modelId]
             = [i \in 1..Len(SelectSeq(Fetched, StatusIsActive)) |->
                  SelectSeq(Fetched, StatusIsActive)[i].modelId]
        /\ \A i \in 1..Len(enabled_models) :
             \A j \in 1..Len(Fetched) :
                LacksStatus(Fetched[j]) => enabled_models[i].modelId # Fetched[j].modelId

\* C4 witness: a page held an entry without modelLifecycle, then one without
\* status, then an active one, and the call returned the active one alone.
C4_Witness ==
    /\ pc = "done"
    /\ Fetched = <<NoLifecycle, NoStatus, Active1>>
    /\ Len(result) = 1
    /\ Len(result[1]) = 1
    /\ result[1][1].modelId = "m1"

\* the calls that raised, other than the resolution of the hostname
Failures == SelectSeq(calls, LAMBDA c : c.raised /\ c.op # "gethostbyname")

\* the log entries of one function / of one level
LogOf(fn) == SelectSeq(log, LAMBDA l : l.fn = fn)

Errors(entries) == SelectSeq(entries, LAMBDA l : l.level = "ERROR")

\* C5: list_foundation_models never hands out a partial list: when client
\* construction or a page fetch failed, its caller received no list and the
\* run ends with an error; a list exists only after the paginator was
\* exhausted with no failure.
C5_NoPartialResult ==
    /\ Len(Failures) > 0 => (models = <<>> /\ result = <<>> /\ Len(exc) = 1)
    /\ Len(models) > 0 => (Len(Failures) = 0 /\ calls[Len(calls)].kind = "end" /\ exc = <<>>)
    /\ Len(result) > 0 => result = models

\* C5 witness: a page with an active model was consumed, the next fetch
\* failed, and the run ended with no list.
C5_Witness ==
    /\ pc = "done"
    /\ Len(enabled_models) > 0
    /\ Len(calls) > 0
    /\ calls[Len(calls)].kind = "error"
    /\ result = <<>>

\* C6: when a call made by list_foundation_models failed with a ClientError,
\* the function logs one error entry holding both the code and the message
\* of that error, and the error it hands to main is that same error.
C6_ClientErrorLogged ==
    (pc \in {"main_except", "done"} /\ Len(Failures) > 0 /\ Failures[1].error[1].type = "ClientError") =>
        LET e    == Failures[1].error[1]
            mine == Errors(LogOf("list_foundation_models"))
        IN  /\ Len(mine) = 1
            /\ e.response.Code \in Range(mine[1].text)
            /\ e.response.Message \in Range(mine[1].text)
            /\ exc = <<e>>

\* C6 witness: the listing was throttled and the handler has run.
C6_Witness ==
    /\ pc = "main_except"
    /\ Len(calls) > 0
    /\ calls[Len(calls)].op = "paginate"
    /\ Len(exc) = 1
    /\ exc[1].type = "ClientError"
    /\ exc[1].response.Code = "ThrottlingException"

\* C7: a failure of client construction or of the listing travels unchanged:
\* at every level the error in flight is the one the failing call raised,
\* main returns nothing, and main's failure entry is the last thing logged.
C7_ReraisedUnchanged ==
    Len(Failures) > 0 =>
        /\ Len(Failures) = 1
        /\ exc = Failures[1].error
        /\ result = <<>>
        /\ pc = "done" =>
              /\ log[Len(log)].level = "ERROR"
              /\ log[Len(log)].fn = "main"
              /\ log[Len(log)].text = <<"Failed to list models: ">> \o Failures[1].error[1].text

\* C7 witness: client construction failed and the error has left main.
C7_Witness ==
    /\ pc = "done"
    /\ Len(Failures) = 1
    /\ Failures[1].op = "boto3.client"
    /\ Len(exc) = 1

\* the position of the first call of a kind in `calls`, 0 when there is none
FirstCall(op) ==
    IF \E i \in 1..Len(calls) : calls[i].op = op
    THEN CHOOSE i \in 1..Len(calls) : calls[i].op = op /\ \A j \in 1..(i - 1) : calls[j].op # op
    ELSE 0

\* the run has left get_bedrock_client's try body
PastConstruction == pc \notin {"main", "verify_private_connection", "get_bedrock_client"}

\* C8: the connectivity check runs once, before client construction, and is
\* advisory: after a negative check one warning is logged and construction
\* is attempted once all the same, with the configuration used after a
\* positive check; no call is made again after it failed.
C8_CheckIsAdvisory ==
    /\ Len(CallsOf("gethostbyname")) <= 1
    /\ Len(CallsOf("boto3.client")) <= 1
    /\ Len(CallsOf("boto3.client")) = 1 =>
          /\ FirstCall("gethostbyname") = 1
          /\ FirstCall("boto3.client") = 2
          /\ Len(is_private) = 1
          /\ CallsOf("boto3.client")[1].config =
                << [region_name     |-> "us-east-1",
                    retries         |-> [max_attempts |-> 3, mode |-> "standard"],
                    connect_timeout |-> 5,
                    read_timeout    |-> 10,
                    endpoint_url    |-> <<"https://bedrock.", "us-east-1", ".amazonaws.com">>] >>
    /\ PastConstruction =>
          /\ Len(CallsOf("boto3.client")) = 1
          /\ Len(SelectSeq(LogOf("get_bedrock_client"), LAMBDA l : l.level = "WARNING"))
                = IF is_private[1] THEN 0 ELSE 1
    /\ \A i \in 1..Len(calls) : (calls[i].raised /\ calls[i].op # "gethostbyname") => i = Len(calls)

\* C8 witness: resolution failed, the warning was logged and the client was
\* constructed.
C8_Witness ==
    /\ pc = "paginate"
    /\ is_private = <<FALSE>>
    /\ calls[1].dns.raised
    /\ Len(client) = 1
    /\ Len(LogOf("get_bedrock_client")) = 1

\* the text of a line that joins `parts` with ", " after `label`
JoinedLine(label, parts) ==
    [i \in 1..(IF Len(parts) = 0 THEN 1 ELSE 2 * Len(parts)) |->
        IF i = 1 THEN label
        ELSE IF i % 2 = 0 THEN parts[i \div 2]
        ELSE ", "]

\* C9: on success main logs a start line, then the count of the models
\* returned, then five lines for each model in order (id, provider, joined
\* input modalities, joined output modalities, separator) and returns the
\* list it was given; before the listing has completed main has logged the
\* start line at most.
C9_ReportOrder ==
    LET mine == LogOf("main")
    IN  /\ (pc = "done" /\ Len(result) = 1) =>
             LET ms == result[1]
             IN  /\ result = models
                 /\ ms = enabled_models
                 /\ Len(mine) = 2 + 5 * Len(ms)
                 /\ mine[1].text = <<"Starting to fetch enabled Bedrock models...">>
                 /\ mine[2].text = <<"Found ", DigitChars[Len(ms) + 1], " enabled models:">>
                 /\ \A l \in 1..Len(mine) : mine[l].level = "INFO"
                 /\ \A k \in 1..Len(ms) :
                      LET at == 2 + 5 * (k - 1)
                      IN  /\ mine[at + 1].text = <<"Model ID: ", ms[k].modelId>>
                          /\ mine[at + 2].text = <<"Provider: ", ms[k].provider>>
                          /\ mine[at + 3].text = JoinedLine("Input Modalities: ", ms[k].inputModalities)
                          /\ mine[at + 4].text = JoinedLine("Output Modalities: ", ms[k].outputModalities)
                          /\ Len(mine[at + 5].text) = 50
                          /\ Range(mine[at + 5].text) = {"-"}
        /\ (pc # "done" /\ pc # "main") =>
             /\ Len(mine) = 1
             /\ mine[1].text = <<"Starting to fetch enabled Bedrock models...">>

\* C9 witness: two models were returned and reported, one with two input
\* modalities.
C9_Witness ==
    /\ pc = "done"
    /\ Len(result) = 1
    /\ Len(result[1]) = 2
    /\ result[1][2].inputModalities = <<"TEXT", "IMAGE">>

\* the functions that logged the error entries, in log order
ErrorFns(entries) == [i \in 1..Len(Errors(entries)) |-> Errors(entries)[i].fn]

\* C10: a failure is logged once by each layer it passes, innermost first:
\* three error entries (get_bedrock_client, list_foundation_models, main)
\* for a construction error, two (list_foundation_models, main) for a
\* listing error, and for a failed check one entry in
\* verify_private_connection and none in the layers above it.
C10_OneEntryPerLayer ==
    pc = "done" =>
        LET outer == SelectSeq(log, LAMBDA l : l.fn # "verify_private_connection")
            check == LogOf("verify_private_connection")
        IN  /\ ErrorFns(outer) =
                  IF Len(Failures) = 0 THEN <<>>
                  ELSE IF Failures[1].op = "boto3.client"
                       THEN <<"get_bedrock_client", "list_foundation_models", "main">>
                       ELSE <<"list_foundation_models", "main">>
            /\ Len(Errors(check)) = IF calls[1].dns.raised THEN 1 ELSE 0

\* C10 witness: the check failed, then client construction failed, and the
\* run ended with four error entries, one by the check and three above it.
C10_Witness ==
    /\ pc = "done"
    /\ calls[1].dns.raised
    /\ Len(Failures) = 1
    /\ Failures[1].op = "boto3.client"
    /\ ErrorFns(log) = <<"verify_private_connection", "get_bedrock_client",
                         "list_foundation_models", "main">>

====
